---------------------------- MODULE Spec2Model ----------------------------
(***************************************************************************)
(* A model of four parts of CasADi:                                        *)
(*   - the symbolic-QR linear solver (SymbolicQr, SymbolicQrMemory):       *)
(*     reset / factorize / solve on one Memory            (Spec)           *)
(*   - SymbolicQr::init and its option handling           (SpecInit)       *)
(*   - WorhpInterface: the reverse-communication loop of solve             *)
(*     (SpecWorhp), the Hessian it hands to the solver (SpecHess), and     *)
(*     the life of a WorhpMemory: init_memory, set_work, destructor        *)
(*     (SpecMem)                                                           *)
(*   - the structural MX nodes HorzRepmat, HorzRepsum, Rank1 (SpecNodes)   *)
(*                                                                         *)
(* Index sets are 0-based as in the C++ source.  Numeric nonzeros are      *)
(* exact integers; matrices handed to factorize have determinant -1, 0     *)
(* or 1, so that every solution of a nonsingular system is an integer.     *)
(***************************************************************************)
EXTENDS Integers, Sequences, FiniteSets, TLC

\* ------------------------------------------------------------------ bounds
\* number of right-hand-side segments the caller's buffer x holds
MaxRhs == 2
\* cap on the size of the floating scratch w (it grows with every reset)
MaxW == 5
\* the histories cb_calls and iter_outputs count up to this and stay there
MaxCount == 2
\* largest replication count n_ of a HorzRepmat / HorzRepsum node
MaxTiles == 3
\* derivative seeds and dependency marks are enumerated for buffers up to
\* this many nonzeros
MaxSeedNnz == 4

VARIABLES
  sparsity,    \* m->sparsity: the pattern given to the last reset
  fn,          \* m->factorize, m->solve, m->solveT
  arg,         \* m->arg.size()
  res,         \* m->res.size()
  iw,          \* m->iw.size()
  w,           \* m->w.size()
  q,           \* m->q: size and contents
  r,           \* m->r: size and contents
  x,           \* the in/out buffer of the call in `call` on return (solve only)
  x0,          \* history: that buffer on entry to the call
  Aval,        \* history: the matrix factorized since the last reset
  factorized,  \* history: a factorize succeeded since the last reset
  call,        \* the last call and how it ended
  opts,        \* SymbolicQr::init: the option dictionary passed in
  init_status, \* SymbolicQr::init: how init ended
  fopts,       \* SymbolicQr::fopts_: option keys handed to the Functions
  pc,          \* WorhpInterface::solve: position in the handler
  status,      \* m->worhp_c.status
  userAction,  \* m->worhp_c: the pending user actions
  firstIteration, \* the local of WorhpInterface::solve
  has_callback,   \* !fcallback_.is_null()
  cb_calls,       \* history: evaluations of fcallback_ (saturating)
  iter_outputs,   \* history: calls of IterationOutput (saturating)
  return_code,    \* m->return_code
  return_status,  \* m->return_status
  evals,          \* history: what the current pass of the loop has called
  inputs,         \* m->x0, lbx, ubx, lam_x0, lbg, ubg, lam_g0 of the solve call
  worhp_o,        \* m->worhp_o: X, XL, XU, Lambda, Mu, GL, GU, F, G
  outputs,        \* what m->f, m->x, m->g, m->lam_x, m->lam_g point to
  hesslag_sp,     \* hesslag_sp_: the pattern of the output of nlp_hess_l
  HM,             \* m->worhp_w.HM: nnz, NeedStructure, row, col, val
  hm_hist,        \* history: the last evalHM block, what it read and wrote
  flags,          \* worhp_p, worhp_o, worhp_w, worhp_c .initialised
  last_free,      \* history: the last call of WorhpFree, its caller and flags
  at_init,        \* history: the flags at the last call of WorhpInit
  nd_n,           \* n_ of the HorzRepmat / HorzRepsum nodes
  nd_x,           \* the matrix at the input of the expression
  nd_op,          \* the node operations evaluated so far, in order
  nd_arg,         \* what the last operation was given besides the matrix
  nd_y            \* what the last operation returned

linsolVars == <<sparsity, fn, arg, res, iw, w, q, r, x, x0, Aval, factorized, call>>
initVars == <<opts, init_status, fopts>>
worhpVars == <<pc, status, userAction, firstIteration, has_callback, cb_calls,
               iter_outputs, return_code, return_status, evals,
               inputs, worhp_o, outputs, hesslag_sp, HM, hm_hist, flags, last_free,
               at_init>>
hessVars == <<hesslag_sp, HM, hm_hist>>
memVars == <<flags, last_free, at_init>>
nodeVars == <<nd_n, nd_x, nd_op, nd_arg, nd_y>>
vars == <<linsolVars, initVars, worhpVars, nodeVars>>

\* ------------------------------------------------------- small linear algebra
Idx(n) == 0..(n - 1)

Max2(a, b) == IF a >= b THEN a ELSE b

\* A sparsity pattern is [size1, size2, nz]; nz holds the <<row, col>> of the
\* structural nonzeros.  A matrix is [sp, nz]: its pattern and its nonzero
\* buffer, in the column-major order of the pattern.
Nnz(sp) == Cardinality(sp.nz)

\* position of a structural nonzero in the nonzero buffer (CCS order)
NzIndex(sp, e) == Cardinality({f \in sp.nz : f[2] < e[2] \/ (f[2] = e[2] /\ f[1] < e[1])})

NzAt(sp, k) == CHOOSE e \in sp.nz : NzIndex(sp, e) = k

\* all bijections of [0, n)
Perms(n) == {p \in [Idx(n) -> Idx(n)] : \A i, j \in Idx(n) : p[i] = p[j] => i = j}

RemoveAt(s, k) == [i \in 1..(Len(s) - 1) |-> IF i < k THEN s[i] ELSE s[i + 1]]

RECURSIVE DetSub(_, _, _)
RECURSIVE DetRow(_, _, _, _)
\* Laplace expansion along the first row of the minor (rows, cols)
DetSub(M, rows, cols) ==
  IF Len(rows) = 0 THEN 1 ELSE DetRow(M, rows, cols, 1)
DetRow(M, rows, cols, k) ==
  IF k > Len(cols) THEN 0
  ELSE (IF k % 2 = 1 THEN 1 ELSE -1) * M[rows[1], cols[k]]
         * DetSub(M, Tail(rows), RemoveAt(cols, k))
       + DetRow(M, rows, cols, k + 1)

Det(M, n) == DetSub(M, [i \in 1..n |-> i - 1], [i \in 1..n |-> i - 1])

Transpose(M, n) == [i \in Idx(n), j \in Idx(n) |-> M[j, i]]

ReplaceCol(M, n, j, b) == [i \in Idx(n), k \in Idx(n) |-> IF k = j THEN b[i] ELSE M[i, k]]

RECURSIVE RowSum(_, _, _, _)
RowSum(M, v, i, k) == IF k < 0 THEN 0 ELSE M[i, k] * v[k] + RowSum(M, v, i, k - 1)

\* the product M*v
MatVec(M, v, n) == [i \in Idx(n) |-> RowSum(M, v, i, n - 1)]

\* the solution of M*v = b by Cramer's rule, for Det(M) = 1 or -1
SolveLin(M, b, n) ==
  LET d == Det(M, n)
  IN  [j \in Idx(n) |-> d * Det(ReplaceCol(M, n, j, b), n)]

\* a value that is no solution: not-a-number, or a number computed from
\* factors that are zero or were left by an earlier pattern
Junk == -999


\* ------------------------------------------------------------ Sparsity, BTF
\* square sparsity patterns given to reset: dimension and nonzero positions
Dense2 == [n |-> 2, nz |-> {<<0, 0>>, <<0, 1>>, <<1, 0>>, <<1, 1>>}]
Lower3 == [n |-> 3, nz |-> {<<0, 0>>, <<1, 1>>, <<2, 2>>, <<2, 0>>}]
Patterns == {Dense2, Lower3}
NoSparsity == [n |-> 0, nz |-> {}]

\* Sparsity::btf: the row and column permutations; every pair of
\* bijections of [0, n) is a possible outcome
BtfOf == [sp \in Patterns |-> [rowperm : Perms(sp.n), colperm : Perms(sp.n)]]

\* the dense matrix with nonzeros vals on pattern sp
DenseOf(sp, vals) ==
  [i \in Idx(sp.n), j \in Idx(sp.n) |-> IF <<i, j>> \in sp.nz THEN vals[<<i, j>>] ELSE 0]

\* numeric values of the nonzeros of A handed to factorize
Vals == {0, 1}

\* the matrices handed to factorize for each pattern: nonsingular ones with
\* an integer inverse, and singular ones
MatricesOf ==
  [sp \in Patterns |->
     {A \in {DenseOf(sp, v) : v \in [sp.nz -> Vals]} : Det(A, sp.n) \in {-1, 0, 1}}]

\* ------------------------------------------------------- permutation inversion
RECURSIVE InvertLoop(_, _, _, _)
\* for (k=0; k<perm.size(); ++k) inv[perm[k]] = k;  cnt counts the writes per slot
InvertLoop(perm, acc, k, n) ==
  IF k >= n THEN acc
  ELSE InvertLoop(perm,
                  [inv |-> [acc.inv EXCEPT ![perm[k]] = k],
                   cnt |-> [acc.cnt EXCEPT ![perm[k]] = @ + 1]],
                  k + 1, n)

InvertRun(perm, n) ==
  InvertLoop(perm, [inv |-> [i \in Idx(n) |-> 0], cnt |-> [i \in Idx(n) |-> 0]], 0, n)

\* a plausible slip: the permutation copied, not inverted
InvertPermCopy(perm, n) == [i \in Idx(n) |-> perm[i]]

\* std::vector<int> inv(n), filled by the loop
InvertPerm(perm, n) == InvertRun(perm, n).inv

\* ---------------------------------------------------------------- Functions
NullFn == [null |-> TRUE]

\* scratch requirements (sz_iw, sz_w) of the three generated Functions
SzSamples ==
  { <<[iw |-> 0, w |-> 0], [iw |-> 0, w |-> 0], [iw |-> 0, w |-> 0]>>,
    <<[iw |-> 1, w |-> 1], [iw |-> 0, w |-> 2], [iw |-> 2, w |-> 0]>> }

\* nonzeros of the generated factors Q1 and R1
NnzQ(sp) == sp.n * sp.n
NnzR(sp) == (sp.n * (sp.n + 1)) \div 2

\* Function("QR_fact", {A}, {Q1, R1}, fopts_) with Aperm = A(rowperm, colperm)
MkFactorize(sp, rowperm, colperm, sz, fo) ==
  [null |-> FALSE, name |-> "QR_fact", n_in |-> 1, n_out |-> 2,
   sz_arg |-> 1, sz_res |-> 2, sz_iw |-> sz.iw, sz_w |-> sz.w,
   n |-> sp.n, rowperm |-> rowperm, colperm |-> colperm,
   nnz_out |-> <<NnzQ(sp), NnzR(sp)>>, opts |-> fo]

\* Function(name, {Q, R, b}, {x}, fopts_) with bperm = b(b_idx), x = xperm(x_idx);
\* tr: xperm = Q*solve(R', bperm), otherwise xperm = solve(R, Q'*bperm)
MkSolve(name, sp, b_idx, x_idx, tr, sz, fo) ==
  [null |-> FALSE, name |-> name, n_in |-> 3, n_out |-> 1,
   sz_arg |-> 3, sz_res |-> 1, sz_iw |-> sz.iw, sz_w |-> sz.w,
   n |-> sp.n, b_idx |-> b_idx, x_idx |-> x_idx, tr |-> tr, opts |-> fo]

\* contents of a factor buffer: value-initialised ("zero"), a factor of the
\* matrix `of` ("Q" or "R"), not-a-number ("nan"), or values that were written
\* before the last reset and kept by resize ("stale")
ZeroBuf == [size |-> 0, kind |-> "zero", of |-> <<>>]

\* the factors stored in (qb, rb) are a QR pair of one n-by-n nonsingular matrix
ValidFactors(qb, rb, n) ==
  /\ qb.kind = "Q"
  /\ rb.kind = "R"
  /\ qb.of = rb.of
  /\ DOMAIN qb.of = Idx(n) \X Idx(n)
  /\ Det(qb.of, n) # 0

\* evaluation of QR_fact on the nonzeros of A: the permuted matrix Q*R equals
EvalFactorize(f, A) == [i \in Idx(f.n), j \in Idx(f.n) |-> A[f.rowperm[i], f.colperm[j]]]

\* a plausible slip: the solution returned in the permuted ordering
EvalSolveNoUnpermute(f, qb, rb, b) ==
  IF ValidFactors(qb, rb, f.n)
  THEN LET bperm == [i \in Idx(f.n) |-> b[f.b_idx[i]]]
           M == IF f.tr THEN Transpose(qb.of, f.n) ELSE qb.of
       IN  SolveLin(M, bperm, f.n)
  ELSE [c \in Idx(f.n) |-> Junk]

\* evaluation of QR_solv / QR_solv_T on (Q, R, b)
EvalSolve(f, qb, rb, b) ==
  IF ValidFactors(qb, rb, f.n)
  THEN LET bperm == [i \in Idx(f.n) |-> b[f.b_idx[i]]]
           M == IF f.tr THEN Transpose(qb.of, f.n) ELSE qb.of
           xperm == SolveLin(M, bperm, f.n)
       IN  [c \in Idx(f.n) |-> xperm[f.x_idx[c]]]
  ELSE [c \in Idx(f.n) |-> Junk]

\* ------------------------------------------------------- SymbolicQrMemory
\* a plausible slip: the buffers shrunk to the smallest requirement
AllocMin(mem, f) ==
  [arg |-> IF mem.arg <= f.sz_arg THEN mem.arg ELSE f.sz_arg,
   res |-> IF mem.res <= f.sz_res THEN mem.res ELSE f.sz_res,
   iw |-> IF mem.iw <= f.sz_iw THEN mem.iw ELSE f.sz_iw,
   w |-> IF mem.w <= f.sz_w THEN mem.w ELSE f.sz_w]

\* SymbolicQrMemory::alloc
Alloc(mem, f) ==
  [arg |-> Max2(mem.arg, f.sz_arg),
   res |-> Max2(mem.res, f.sz_res),
   iw |-> Max2(mem.iw, f.sz_iw),
   w |-> Max2(mem.w, f.sz_w)]

\* m->nrow()
nrow == sparsity.n

\* std::vector::resize in reset: the size changes, what the buffer held stays
Resize(buf, size) ==
  [size |-> size, kind |-> IF buf.kind = "zero" THEN "zero" ELSE "stale", of |-> <<>>]

LinsolInit ==
  /\ sparsity = NoSparsity
  /\ fn = [factorize |-> NullFn, solve |-> NullFn, solveT |-> NullFn]
  /\ arg = 0 /\ res = 0 /\ iw = 0 /\ w = 0
  /\ q = ZeroBuf /\ r = ZeroBuf
  /\ x = <<>> /\ x0 = <<>> /\ Aval = <<>>
  /\ factorized = FALSE
  /\ call = [op |-> "none", nrhs |-> 0, tr |-> FALSE, status |-> "ok", fresh |-> FALSE]

\* SymbolicQr::reset(mem, sp)
Reset(sp, btf, sz) ==
  LET inv_colperm == InvertPerm(btf.colperm, sp.n)
      inv_rowperm == InvertPerm(btf.rowperm, sp.n)
      f1 == MkFactorize(sp, btf.rowperm, btf.colperm, sz[1], fopts)
      f2 == MkSolve("QR_solv", sp, btf.rowperm, inv_colperm, FALSE, sz[2], fopts)
      f3 == MkSolve("QR_solv_T", sp, btf.colperm, inv_rowperm, TRUE, sz[3], fopts)
      m0 == [arg |-> arg, res |-> res, iw |-> iw, w |-> w]
      m3 == Alloc(Alloc(Alloc(m0, f1), f2), f3)
      wnew == m3.w + sp.n
  IN  /\ init_status = "ok"
      /\ wnew <= MaxW
      /\ sparsity' = sp
      /\ fn' = [factorize |-> f1, solve |-> f2, solveT |-> f3]
      /\ arg' = m3.arg /\ res' = m3.res /\ iw' = m3.iw
      /\ w' = wnew
      /\ q' = Resize(q, f1.nnz_out[1])
      /\ r' = Resize(r, f1.nnz_out[2])
      /\ factorized' = FALSE
      /\ Aval' = <<>>
      /\ call' = [op |-> "reset", nrhs |-> 0, tr |-> FALSE, status |-> "ok", fresh |-> FALSE]
      /\ x' = <<>> /\ x0' = <<>>
      /\ UNCHANGED <<initVars, worhpVars, nodeVars>>

\* SymbolicQr::factorize(mem, A), A the values on pattern sp: QR_fact writes straight into m->q and m->r
Factorize(sp, A) ==
  LET Aperm == EvalFactorize(fn.factorize, A)
  IN  /\ ~fn.factorize.null
      /\ sp = sparsity
      /\ \/ /\ Det(Aperm, nrow) # 0
            /\ q' = [q EXCEPT !.kind = "Q", !.of = Aperm]
            /\ r' = [r EXCEPT !.kind = "R", !.of = Aperm]
            /\ Aval' = A
            /\ factorized' = TRUE
            /\ call' = [op |-> "factorize", nrhs |-> 0, tr |-> FALSE, status |-> "ok",
                        fresh |-> TRUE]
         \/ /\ Det(Aperm, nrow) = 0
            \* the kernel meets a degenerate diagonal: what it had written to
            \* its result buffers by then stays there
            /\ \/ q' = q /\ r' = r
               \/ /\ q' = [q EXCEPT !.kind = "nan", !.of = <<>>]
                  /\ r' = [r EXCEPT !.kind = "nan", !.of = <<>>]
            /\ call' = [op |-> "factorize", nrhs |-> 0, tr |-> FALSE,
                        status |-> "singular", fresh |-> factorized]
            /\ UNCHANGED <<Aval, factorized>>
      /\ x' = <<>> /\ x0' = <<>>
      /\ UNCHANGED <<sparsity, fn, arg, res, iw, w, initVars, worhpVars, nodeVars>>

\* right-hand sides the caller puts into x
RhsSamples(n) == <<[k \in Idx(n) |-> k + 1], [k \in Idx(n) |-> IF k = 0 THEN 1 ELSE 0]>>

\* the caller's buffer: MaxRhs segments of n values each, neighbouring
\* segments holding different right-hand sides
XBufs(n) ==
  {[i \in Idx(MaxRhs * n) |-> RhsSamples(n)[1 + (((i \div n) + s) % 2)][i % n]] : s \in {0, 1}}

\* the values xb[i*n .. (i+1)*n)
Segment(xb, i, n) == [k \in Idx(n) |-> xb[i * n + k]]

RECURSIVE SolveLoopNoAdvance(_, _, _, _)
\* a plausible slip: x is not advanced, every pass works on the first segment
SolveLoopNoAdvance(solv, xb, i, nrhs) ==
  IF i >= nrhs THEN xb
  ELSE LET tmp == Segment(xb, 0, solv.n)
           out == EvalSolve(solv, q, r, tmp)
       IN  SolveLoopNoAdvance(solv,
                     [k \in DOMAIN xb |-> IF k \in 0..(solv.n - 1) THEN out[k] ELSE xb[k]],
                     i + 1, nrhs)

RECURSIVE SolveLoop(_, _, _, _)
\* for (i=0; i<nrhs; ++i) { copy_n(x, nrow, w); solv(q, r, w -> x); x += nrow; }
SolveLoop(solv, xb, i, nrhs) ==
  IF i >= nrhs THEN xb
  ELSE LET tmp == Segment(xb, i, solv.n)
           out == EvalSolve(solv, q, r, tmp)
       IN  SolveLoop(solv,
                     [k \in DOMAIN xb |->
                        IF k \in (i * solv.n)..((i + 1) * solv.n - 1)
                        THEN out[k - i * solv.n] ELSE xb[k]],
                     i + 1, nrhs)

\* a plausible slip: the flag ignored
SelectSolveIgnoreFlag(tr) == fn.solve

\* tr ? m->solveT : m->solve
SelectSolve(tr) == IF tr THEN fn.solveT ELSE fn.solve

\* a region [lo, hi) of one of the buffers: "w" is m->w, "x" the caller's x
Region(buf, lo, hi) == [buf |-> buf, lo |-> lo, hi |-> hi]

\* a plausible slip: the Function is given m->w itself as its scratch
SolvePassNoOffset(solv, i) ==
  [tmp |-> Region("w", 0, nrow),
   arg2 |-> Region("w", 0, nrow),
   res0 |-> Region("x", i * nrow, (i + 1) * nrow),
   scratch |-> Region("w", 0, solv.sz_w)]

\* what pass i of the loop of solve hands to the Function: copy_n(x, nrow, w);
\* arg[2] = w; res[0] = x; solv(arg, res, iw, w + nrow); the Function may
\* write sz_w values of its scratch
SolvePass(solv, i) ==
  [tmp |-> Region("w", 0, nrow),
   arg2 |-> Region("w", 0, nrow),
   res0 |-> Region("x", i * nrow, (i + 1) * nrow),
   scratch |-> Region("w", nrow, nrow + solv.sz_w)]

\* a plausible slip: the result buffer of the Function set as in factorize,
\* so that the pass writes over m->q
SolveOverQ(xin, nrhs, tr) ==
  /\ ~fn.solve.null
  /\ x0' = xin
  /\ x' = xin
  /\ q' = [q EXCEPT !.kind = "stale", !.of = <<>>]
  /\ call' = [op |-> "solve", nrhs |-> nrhs, tr |-> tr, status |-> "ok",
              fresh |-> factorized,
              passes |-> [i \in Idx(nrhs) |-> SolvePass(SelectSolve(tr), i)]]
  /\ UNCHANGED <<sparsity, fn, arg, res, iw, w, r, Aval, factorized, initVars, worhpVars, nodeVars>>

\* SymbolicQr::solve(mem, x, nrhs, tr), xin the contents of x on entry
Solve(xin, nrhs, tr) ==
  /\ ~fn.solve.null
  /\ x0' = xin
  /\ x' = SolveLoop(SelectSolve(tr), xin, 0, nrhs)
  /\ call' = [op |-> "solve", nrhs |-> nrhs, tr |-> tr, status |-> "ok",
              fresh |-> factorized,
              passes |-> [i \in Idx(nrhs) |-> SolvePass(SelectSolve(tr), i)]]
  /\ UNCHANGED <<sparsity, fn, arg, res, iw, w, q, r, Aval, factorized, initVars, worhpVars, nodeVars>>

\* ------------------------------------------------------------- SymbolicQr::init
\* SymbolicQr::options_: the keys of the class itself and of its base
OwnKeys == {"codegen", "compiler"}
BaseKeys == {"verbose", "jit_options"}
RecognizedKeys == OwnKeys \cup BaseKeys

\* keys a caller may pass, recognized or not
OptionKeys == RecognizedKeys \cup {"enable_codegen", "unknown_key"}

\* option dictionaries: a value per key, a boolean for "codegen"
OptionDicts ==
  UNION {{[k \in K |-> IF k = "codegen" THEN c ELSE TRUE] : c \in BOOLEAN} : K \in SUBSET OptionKeys}

NoOptions == [k \in {} |-> TRUE]

\* LinsolInternal::init: every key must be a recognized option
BaseInitOk(o) == DOMAIN o \subseteq RecognizedKeys

\* bool codegen = false; ... if (op.first=="codegen") codegen = op.second;
CodegenFlag(o) == IF "codegen" \in DOMAIN o THEN o["codegen"] ELSE FALSE

\* a plausible slip: the code-generation options added whatever the flag
CodegenOptsAlways(codegen, fo) == fo \cup {"compiler", "jit_options"}

\* if (codegen) { fopts_["compiler"] = ...; fopts_["jit_options"] = ...; }
CodegenOpts(codegen, fo) == IF codegen THEN fo \cup {"compiler", "jit_options"} ELSE fo

\* how SymbolicQr::init(o) ends
InitOutcome(o) ==
  IF ~BaseInitOk(o) THEN "UnknownOptionError"
  ELSE IF "compiler" \in DOMAIN o THEN "OptionRemovedError"
  ELSE "ok"

\* SymbolicQr::init(opts)
DoInit(o) ==
  /\ init_status = "none"
  /\ opts' = o
  /\ init_status' = InitOutcome(o)
  /\ fopts' = IF InitOutcome(o) = "ok" THEN CodegenOpts(CodegenFlag(o), fopts) ELSE fopts
  /\ UNCHANGED <<linsolVars, worhpVars, nodeVars>>

\* before init
InitPre == opts = NoOptions /\ init_status = "none" /\ fopts = {}

\* after init with no options
InitIdle == opts = NoOptions /\ init_status = "ok" /\ fopts = {}

\* ------------------------------------------------- WorhpInterface::solve
\* the status enumerators return_codes names, in the order of its switch
SuccessNames ==
  <<"TerminateSuccess", "OptimalSolution", "SearchDirectionZero", "SearchDirectionSmall",
    "StationaryPointFound", "AcceptablePrevious", "FritzJohn", "NotDiffable", "Unbounded",
    "FeasibleSolution", "LowPassFilterOptimal", "LowPassFilterAcceptable">>
ErrorNames ==
  <<"TerminateError", "InitError", "DataError", "MaxCalls", "MaxIter", "MinimumStepsize",
    "QPerror", "ProblemInfeasible", "GroupsComposition", "TooBig", "Timeout", "FDError",
    "LocalInfeas", "LicenseError", "TerminatedByUser", "FunctionErrorF", "FunctionErrorG",
    "FunctionErrorDF", "FunctionErrorDG", "FunctionErrorHM">>

\* The enumerator values are WORHP's; the layout here keeps what the loop
\* condition relies on: the statuses that end with success are at or above
\* TerminateSuccess, those that end with an error at or below TerminateError,
\* and FirstCall and Iterating lie strictly between the two.
TerminateSuccess == 2
TerminateError == -2
FirstCall == 0
Iterating == 1

PosIn(name, names) == CHOOSE k \in 1..Len(names) : names[k] = name

StatusCode(name) ==
  IF \E k \in 1..Len(SuccessNames) : SuccessNames[k] = name
  THEN TerminateSuccess + (PosIn(name, SuccessNames) - 1)
  ELSE TerminateError - (PosIn(name, ErrorNames) - 1)

TerminatedByUser == StatusCode("TerminatedByUser")

ListedNames == {SuccessNames[k] : k \in 1..Len(SuccessNames)} \cup {ErrorNames[k] : k \in 1..Len(ErrorNames)}

\* WorhpInterface::return_codes
return_codes(flag) ==
  IF \E name \in ListedNames : StatusCode(name) = flag
  THEN CHOOSE name \in ListedNames : StatusCode(name) = flag
  ELSE "Unknown WORHP return code"

\* a plausible slip: <= for <
InLoopInclusive(st) == st <= TerminateSuccess /\ st > TerminateError

\* status < TerminateSuccess && status > TerminateError
InLoop(st) == st < TerminateSuccess /\ st > TerminateError

UserActions ==
  {"callWorhp", "iterOutput", "evalF", "evalG", "evalDF", "evalDG", "evalHM", "fidif"}

\* what a call of Worhp or WorhpFidif may leave in the status
StatusSamples ==
  {FirstCall, Iterating, TerminateSuccess, StatusCode("OptimalSolution"), TerminateError,
   StatusCode("MaxIter"), TerminatedByUser,
   TerminateSuccess + Len(SuccessNames), TerminateError - Len(ErrorNames)}

\* ... and in the pending user actions
RequestSamples ==
  { {}, {"callWorhp"}, {"callWorhp", "iterOutput"}, {"callWorhp", "evalF", "evalG"},
    {"evalDF", "evalDG", "evalHM"}, {"callWorhp", "fidif"}, {"iterOutput", "evalHM", "fidif"},
    UserActions }

\* GetUserAction(&m->worhp_c, a)
GetUserAction(a) == a \in userAction

Count(n) == IF n < MaxCount THEN n + 1 ELSE n

\* the problem: nx_ variables, ng_ constraints
nx_ == 3
ng_ == 2

\* numeric_limits<double>::infinity() and m->worhp_p.Infty, as integers with
\* every finite bound of the samples below Infty and Infty below inf
inf == 1000
Infty == 100

\* a null pointer
Null == <<>>
Vec(t) == [i \in Idx(Len(t)) |-> t[i + 1]]

\* casadi_copy(x, n, y): y = x, or zeros if x is null
casadi_copy(xs, n) == IF xs = Null THEN [i \in Idx(n) |-> 0] ELSE [i \in Idx(n) |-> xs[i]]

\* the arguments of a solve call
InputDefault ==
  [x0 |-> Vec(<<1, 2, 3>>), lam_x0 |-> Vec(<<0, 0, 0>>), lam_g0 |-> Vec(<<0, 0>>),
   lbx |-> Vec(<<0, -inf, -inf>>), ubx |-> Vec(<<5, inf, 7>>),
   lbg |-> Vec(<<-inf, 1>>), ubg |-> Vec(<<3, inf>>)]

InputSamples ==
  LET base == InputDefault
  IN  { base,
        [base EXCEPT !.lbx = Vec(<<0, 4, -inf>>), !.ubx = Vec(<<5, 4, 7>>)],
        [base EXCEPT !.lbg = Vec(<<-inf, -inf>>)],
        [base EXCEPT !.lbx = Null, !.ubx = Vec(<<0, 0, 0>>), !.lbg = Null, !.ubg = Vec(<<inf, inf>>)],
        [base EXCEPT !.lbx = Vec(<<2, 2, 2>>), !.ubx = Null, !.ubg = Null,
                     !.lbg = Vec(<<-inf, -inf>>), !.x0 = Null],
        [base EXCEPT !.lbx = Vec(<<0, 0, 0>>), !.ubx = Vec(<<1, 1, 1>>),
                     !.lbg = Vec(<<1, 1>>), !.ubg = Vec(<<1, 1>>)],
        [base EXCEPT !.lbx = Vec(<<inf, 0, 0>>), !.ubx = Vec(<<inf, 1, 1>>),
                     !.lbg = Vec(<<-inf, 0>>), !.ubg = Vec(<<inf, 0>>)] }

NoInputs == [x0 |-> Null, lam_x0 |-> Null, lam_g0 |-> Null, lbx |-> Null, ubx |-> Null,
             lbg |-> Null, ubg |-> Null]
NoOutputs == [f |-> 0, x |-> Vec(<<0, 0, 0>>), g |-> Vec(<<0, 0>>),
              lam_x |-> Vec(<<0, 0, 0>>), lam_g |-> Vec(<<0, 0>>)]

\* the problem structure as WorhpInit leaves it
WorhpInit_o ==
  [X |-> Vec(<<0, 0, 0>>), XL |-> Vec(<<0, 0, 0>>), XU |-> Vec(<<0, 0, 0>>),
   Lambda |-> Vec(<<0, 0, 0>>), Mu |-> Vec(<<0, 0>>), GL |-> Vec(<<0, 0>>), GU |-> Vec(<<0, 0>>),
   F |-> 0, G |-> Vec(<<0, 0>>)]

\* a plausible slip: only the first bound pair is compared
XBoundsEqualFirst(inp) ==
  inp.lbx # Null /\ inp.ubx # Null /\ inp.lbx[0] = inp.ubx[0]

\* if (m->lbx && m->ubx) for (i < nx_) casadi_assert(m->lbx[i] != m->ubx[i])
XBoundsEqual(inp) ==
  inp.lbx # Null /\ inp.ubx # Null /\ \E i \in Idx(nx_) : inp.lbx[i] = inp.ubx[i]

\* if (m->lbg && m->ubg) for (i < ng_)
\*   casadi_assert(!(m->lbg[i] == -inf && m->ubg[i] == inf))
GBoundsInfinite(inp) ==
  inp.lbg # Null /\ inp.ubg # Null /\ \E i \in Idx(ng_) : inp.lbg[i] = -inf /\ inp.ubg[i] = inf

\* Replace infinite bounds with m->worhp_p.Infty
ReplaceLower(v, n) == [i \in Idx(n) |-> IF v[i] = -inf THEN -Infty ELSE v[i]]
ReplaceUpper(v, n) == [i \in Idx(n) |-> IF v[i] = inf THEN Infty ELSE v[i]]

\* Pass inputs to WORHP data structures
PassInputs(o, inp) ==
  [o EXCEPT !.X = casadi_copy(inp.x0, nx_),
            !.XL = ReplaceLower(casadi_copy(inp.lbx, nx_), nx_),
            !.XU = ReplaceUpper(casadi_copy(inp.ubx, nx_), nx_),
            !.Lambda = casadi_copy(inp.lam_x0, nx_),
            !.Mu = casadi_copy(inp.lam_g0, ng_),
            !.GL = ReplaceLower(casadi_copy(inp.lbg, ng_), ng_),
            !.GU = ReplaceUpper(casadi_copy(inp.ubg, ng_), ng_)]

\* the values of the objective and the constraints at X (nlp_f, nlp_g)
nlp_f(X) == X[0] + X[1] + X[2]
nlp_g(X) == Vec(<<X[0] + X[1], X[2]>>)

\* ---- the Hessian of the Lagrangian: set_work declares its structure,
\* ---- the evalHM block of solve fills in its values
\* the patterns of nlp_hess_l ("transpose:hess:gamma:x:x"), nx_ by nx_
Lower33 == [size1 |-> nx_, size2 |-> nx_,
            nz |-> {<<0, 0>>, <<1, 0>>, <<2, 0>>, <<1, 1>>, <<2, 1>>, <<2, 2>>}]
NoDiag1 == [size1 |-> nx_, size2 |-> nx_,
            nz |-> {<<0, 0>>, <<1, 0>>, <<2, 0>>, <<2, 1>>, <<2, 2>>}]
Arrow33 == [size1 |-> nx_, size2 |-> nx_,
            nz |-> {<<0, 0>>, <<2, 0>>, <<1, 1>>, <<2, 2>>}]
Strict33 == [size1 |-> nx_, size2 |-> nx_, nz |-> {<<1, 0>>, <<2, 0>>, <<2, 1>>}]
Diag33 == [size1 |-> nx_, size2 |-> nx_, nz |-> {<<0, 0>>, <<1, 1>>, <<2, 2>>}]
Empty33 == [size1 |-> nx_, size2 |-> nx_, nz |-> {}]
HessPatterns == {Lower33, NoDiag1, Arrow33, Strict33, Diag33, Empty33}

\* hesslag_sp_.nnz_lower(true): the entries strictly below the diagonal
nnz_lower(sp, strictly) ==
  Cardinality({e \in sp.nz : IF strictly THEN e[1] > e[2] ELSE e[1] >= e[2]})

\* for c, for el: if (row[el]>c) { HM.row[nz] = row[el]+1; HM.col[nz] = c+1; nz++ }
RECURSIVE StrictlyLowerLoop(_, _, _)
StrictlyLowerLoop(sp, el, rc) ==
  IF el >= Nnz(sp) THEN rc
  ELSE LET e == NzAt(sp, el)
       IN  StrictlyLowerLoop(sp, el + 1,
             IF e[1] > e[2] THEN Append(rc, <<e[1] + 1, e[2] + 1>>) ELSE rc)

\* for (r<nx_): HM.row[nz] = r+1; HM.col[nz] = r+1; nz++ (d for the code's r)
RECURSIVE DiagonalLoop(_, _)
DiagonalLoop(d, rc) ==
  IF d >= nx_ THEN rc ELSE DiagonalLoop(d + 1, Append(rc, <<d + 1, d + 1>>))

\* the diagonal first: not what the code does
HMStructureDiagFirst(sp) == StrictlyLowerLoop(sp, 0, DiagonalLoop(0, <<>>))

\* the <<row, col>> set_work writes to HM.row, HM.col, in order
HMStructure(sp) == DiagonalLoop(0, StrictlyLowerLoop(sp, 0, <<>>))

\* HM as the constructor of the memory leaves it
NoHM == [nnz |-> 0, NeedStructure |-> FALSE, row |-> <<>>, col |-> <<>>, val |-> <<>>]

\* HM after set_work: HM.nnz = nx_ + nnz_lower(true), WorhpInit allocates row,
\* col and val (zeroed) and says whether it needs the structure
SetWorkHM(sp, need) ==
  LET n == nx_ + nnz_lower(sp, TRUE)
      st == HMStructure(sp)
  IN  [nnz |-> n, NeedStructure |-> need,
       row |-> [k \in Idx(n) |-> IF need THEN st[k + 1][1] ELSE 0],
       col |-> [k \in Idx(n) |-> IF need THEN st[k + 1][2] ELSE 0],
       val |-> [k \in Idx(n) |-> 0]]

NoHess == [done |-> FALSE, hv |-> <<>>, writes |-> <<>>, ind |-> 0]

\* what nlp_hess_l returns: one value per nonzero of hesslag_sp_
HessSample1(sp) == [k \in Idx(Nnz(sp)) |-> 11 + k]
HessSample2(sp) == [k \in Idx(Nnz(sp)) |-> 0 - (2 * k + 1)]
HessSamples(sp) == {HessSample1(sp), HessSample2(sp)}

\* for c, for el: if (row[el]==c) dval[c] = val[el]; else val[ind++] = val[el];
\* writes lists the <<index written, index read>> of the else branch
RECURSIVE RemoveDiagonal(_, _, _, _, _, _)
RemoveDiagonal(sp, el, val, dval, ind, writes) ==
  IF el >= Nnz(sp) THEN [val |-> val, dval |-> dval, ind |-> ind, writes |-> writes]
  ELSE LET e == NzAt(sp, el)
       IN  IF e[1] = e[2]
           THEN RemoveDiagonal(sp, el + 1, val, [dval EXCEPT ![e[2]] = val[el]], ind, writes)
           ELSE RemoveDiagonal(sp, el + 1, [val EXCEPT ![ind] = val[el]], dval,
                               ind + 1, Append(writes, <<ind, el>>))

\* the diagonal is never put back: not what the code does
HMCompactNoDiagonal(sp, val) ==
  LET rd == RemoveDiagonal(sp, 0, val, [c \in Idx(nx_) |-> 0], 0, <<>>)
  IN  [val |-> rd.val, writes |-> rd.writes, ind |-> rd.ind]

\* casadi_fill(dval, nx_, 0.); the loop; casadi_copy(dval, nx_, HM.val+ind)
HMCompact(sp, val) ==
  LET rd == RemoveDiagonal(sp, 0, val, [c \in Idx(nx_) |-> 0], 0, <<>>)
  IN  [val |-> [k \in DOMAIN rd.val |->
                  IF k >= rd.ind /\ k < rd.ind + nx_ THEN rd.dval[k - rd.ind] ELSE rd.val[k]],
       writes |-> rd.writes, ind |-> rd.ind]

\* ---- the four structures of a WorhpMemory and their initialised flags
AllClear == [p |-> FALSE, o |-> FALSE, w |-> FALSE, c |-> FALSE]
AllSet == [p |-> TRUE, o |-> TRUE, w |-> TRUE, c |-> TRUE]
NoFree == [by |-> "", at |-> AllClear]

\* WorhpFree(&o, &w, &p, &c): releases each structure whose flag is set and
\* clears the flag
WorhpFree(f) == [k \in DOMAIN f |-> FALSE]

\* the flags at the call of WorhpInit in set_work
FlagsAtInit == [p |-> TRUE, o |-> FALSE, w |-> FALSE, c |-> FALSE]

\* the parameter flag left as it is: not what the code does
ReleaseForReuseAll(f) ==
  LET called == f.o \/ f.w \/ f.c
      f2 == IF called THEN WorhpFree(f) ELSE f
  IN  [called |-> called, at |-> f,
       flags |-> [f2 EXCEPT !.p = TRUE, !.c = FALSE, !.w = FALSE, !.o = FALSE]]

\* set_work 183-199: worhp_p.initialised = false; WorhpFree if o, w or c is
\* initialised; worhp_p.initialised = true; c, w, o .initialised = false
ReleaseForReuse(f) ==
  LET f1 == [f EXCEPT !.p = FALSE]
      called == f1.o \/ f1.w \/ f1.c
      f2 == IF called THEN WorhpFree(f1) ELSE f1
      f3 == [f2 EXCEPT !.p = TRUE]
  IN  [called |-> called, at |-> f1,
       flags |-> [f3 EXCEPT !.c = FALSE, !.w = FALSE, !.o = FALSE]]

\* what WorhpInit may leave: the status, the flags of the three structures it
\* sets up, and whether it wants the structure of the Hessian
WorhpInitOutcomes ==
  { [status |-> FirstCall, o |-> TRUE, w |-> TRUE, c |-> TRUE, need |-> TRUE],
    [status |-> FirstCall, o |-> TRUE, w |-> TRUE, c |-> TRUE, need |-> FALSE],
    [status |-> StatusCode("InitError"), o |-> FALSE, w |-> FALSE, c |-> FALSE, need |-> FALSE],
    [status |-> StatusCode("DataError"), o |-> TRUE, w |-> TRUE, c |-> FALSE, need |-> FALSE],
    [status |-> StatusCode("LicenseError"), o |-> TRUE, w |-> TRUE, c |-> TRUE, need |-> TRUE] }

WorhpIdle ==
  /\ pc = "idle" /\ status = FirstCall /\ userAction = {} /\ firstIteration = TRUE
  /\ has_callback = FALSE /\ cb_calls = 0 /\ iter_outputs = 0
  /\ return_code = 0 /\ return_status = "" /\ evals = <<>>
  /\ inputs = NoInputs /\ worhp_o = WorhpInit_o /\ outputs = NoOutputs
  /\ hesslag_sp = Lower33 /\ HM = NoHM /\ hm_hist = NoHess
  /\ flags = AllClear /\ last_free = NoFree /\ at_init = AllClear

\* the memory as WorhpMemory::WorhpMemory leaves it, for each pattern
WorhpConstructed ==
  /\ pc = "constructed" /\ status = FirstCall /\ userAction = {} /\ firstIteration = TRUE
  /\ has_callback \in BOOLEAN /\ cb_calls = 0 /\ iter_outputs = 0
  /\ return_code = 0 /\ return_status = "" /\ evals = <<>>
  /\ inputs = NoInputs /\ worhp_o = WorhpInit_o /\ outputs = NoOutputs
  /\ hesslag_sp \in HessPatterns /\ HM = NoHM /\ hm_hist = NoHess
  /\ flags = AllClear /\ last_free = NoFree /\ at_init = AllClear

\* the memory after set_work: WorhpInit left FirstCall, Worhp is to be called
WorhpReady ==
  /\ pc = "entry" /\ status = FirstCall /\ userAction = {"callWorhp"}
  /\ firstIteration = TRUE /\ has_callback \in BOOLEAN
  /\ cb_calls = 0 /\ iter_outputs = 0
  /\ return_code = 0 /\ return_status = "" /\ evals = <<>>
  /\ inputs = NoInputs /\ worhp_o = WorhpInit_o /\ outputs = NoOutputs
  /\ hm_hist = NoHess /\ flags = AllSet /\ last_free = NoFree /\ at_init = FlagsAtInit

WorhpInitial ==
  /\ hesslag_sp = Lower33 /\ HM = SetWorkHM(Lower33, TRUE)
  /\ WorhpReady

\* the same, for each pattern of the Hessian and either answer of WorhpInit
WorhpInitialHess ==
  /\ hesslag_sp \in HessPatterns
  /\ \E need \in BOOLEAN : HM = SetWorkHM(hesslag_sp, need)
  /\ WorhpReady

\* init_memory: WorhpPreInit, InitParams (ok: whether it left the parameters
\* initialised), casadi_assert(worhp_p.initialised), the options passed,
\* worhp_p.initialised = true
InitMemory(ok) ==
  /\ pc = "constructed"
  /\ flags' = [flags EXCEPT !.p = ok]
  /\ pc' = IF ok THEN "initialised" ELSE "init_failed"
  /\ UNCHANGED <<status, userAction, firstIteration, has_callback, cb_calls, iter_outputs,
                 return_code, return_status, evals, inputs, worhp_o, outputs,
                 hessVars, last_free, at_init, linsolVars, initVars, nodeVars>>

\* set_work: the structures of the last problem released, the sizes set,
\* WorhpInit (out: what it leaves), a status other than FirstCall throws,
\* the structure of the Hessian declared if WorhpInit wants it
SetWork(out) ==
  /\ pc \in {"initialised", "entry", "set_work_failed", "done", "error"}
  /\ LET rel == ReleaseForReuse(flags)
     IN  /\ last_free' = IF rel.called THEN [by |-> "set_work", at |-> rel.at] ELSE last_free
         /\ at_init' = rel.flags
         /\ flags' = [rel.flags EXCEPT !.o = out.o, !.w = out.w, !.c = out.c]
  /\ status' = out.status
  /\ worhp_o' = WorhpInit_o
  /\ hm_hist' = NoHess
  /\ IF out.status # FirstCall
     THEN /\ pc' = "set_work_failed"
          /\ userAction' = {}
          /\ HM' = SetWorkHM(hesslag_sp, FALSE)
     ELSE /\ pc' = "entry"
          /\ userAction' = {"callWorhp"}
          /\ HM' = SetWorkHM(hesslag_sp, out.need)
  /\ UNCHANGED <<firstIteration, has_callback, cb_calls, iter_outputs, return_code,
                 return_status, evals, inputs, outputs, hesslag_sp,
                 linsolVars, initVars, nodeVars>>

\* WorhpMemory::~WorhpMemory: WorhpFree if any of the four flags is set
Destroy ==
  /\ pc \in {"constructed", "init_failed", "initialised", "entry", "set_work_failed",
              "done", "error"}
  /\ pc' = "destroyed"
  /\ IF flags.p \/ flags.o \/ flags.w \/ flags.c
     THEN last_free' = [by |-> "destructor", at |-> flags] /\ flags' = WorhpFree(flags)
     ELSE UNCHANGED <<last_free, flags>>
  /\ UNCHANGED <<status, userAction, firstIteration, has_callback, cb_calls, iter_outputs,
                 return_code, return_status, evals, inputs, worhp_o, outputs,
                 hessVars, at_init, linsolVars, initVars, nodeVars>>

\* solve up to the loop: the checks of the bounds, the inputs passed to the
\* solver, bool firstIteration = true; a failed check throws
Enter(inp) ==
  /\ pc = "entry"
  /\ inputs' = inp
  /\ IF XBoundsEqual(inp) \/ GBoundsInfinite(inp)
     THEN pc' = "error" /\ UNCHANGED <<worhp_o, firstIteration>>
     ELSE /\ worhp_o' = PassInputs(worhp_o, inp)
          /\ firstIteration' = TRUE
          /\ pc' = "while"
  /\ UNCHANGED <<status, userAction, has_callback, cb_calls, iter_outputs,
                 return_code, return_status, evals, outputs, linsolVars, initVars, nodeVars, hessVars, memVars>>

\* while (status < TerminateSuccess && status > TerminateError)
While ==
  /\ pc = "while"
  /\ pc' = IF InLoop(status) THEN "callWorhp" ELSE "copyout"
  /\ evals' = <<>>
  /\ UNCHANGED <<status, userAction, firstIteration, has_callback, cb_calls, iter_outputs,
                 return_code, return_status, inputs, worhp_o, outputs, linsolVars, initVars, nodeVars, hessVars, memVars>>

\* if (GetUserAction(callWorhp)) Worhp(...);
CallWorhp ==
  /\ pc = "callWorhp"
  /\ pc' = "iterOutput"
  /\ IF GetUserAction("callWorhp")
     THEN /\ status' \in StatusSamples /\ userAction' \in RequestSamples
          /\ evals' = Append(evals, "Worhp")
     ELSE UNCHANGED <<status, userAction, evals>>
  /\ UNCHANGED <<firstIteration, has_callback, cb_calls, iter_outputs,
                 return_code, return_status, inputs, worhp_o, outputs, linsolVars, initVars, nodeVars, hessVars, memVars>>

\* if (GetUserAction(iterOutput)) { if (!firstIteration) { ... callback ... }
\*   IterationOutput(...); DoneUserAction(iterOutput); }
IterOutput ==
  /\ pc = "iterOutput"
  /\ pc' = "evalF"
  /\ IF GetUserAction("iterOutput")
     THEN \E ret \in {0, 1} :
            LET enter == ~firstIteration
                runs == enter /\ has_callback
            IN  /\ firstIteration' = IF enter THEN TRUE ELSE firstIteration
                /\ cb_calls' = IF runs THEN Count(cb_calls) ELSE cb_calls
                /\ status' = IF runs /\ ret # 0 THEN TerminatedByUser ELSE status
                /\ iter_outputs' = Count(iter_outputs)
                /\ userAction' = userAction \ {"iterOutput"}
                /\ evals' = Append(evals, "IterationOutput")
     ELSE UNCHANGED <<firstIteration, cb_calls, status, iter_outputs, userAction, evals>>
  /\ UNCHANGED <<has_callback, return_code, return_status, inputs, worhp_o, outputs,
                 linsolVars, initVars, nodeVars, hessVars, memVars>>

\* a plausible slip: the Functions of evalDF and evalDG exchanged
FunctionOfSwapped(a) ==
  CASE a = "evalF" -> "nlp_f"
    [] a = "evalG" -> "nlp_g"
    [] a = "evalDF" -> "nlp_jac_g"
    [] a = "evalDG" -> "nlp_grad_f"
    [] a = "evalHM" -> "nlp_hess_l"

\* the Function each evaluation block calls
FunctionOf(a) ==
  CASE a = "evalF" -> "nlp_f"
    [] a = "evalG" -> "nlp_g"
    [] a = "evalDF" -> "nlp_grad_f"
    [] a = "evalDG" -> "nlp_jac_g"
    [] a = "evalHM" -> "nlp_hess_l"

\* if (GetUserAction(a)) { calc_function(m, f); DoneUserAction(a); }
Eval(at, a, next) ==
  /\ pc = at
  /\ pc' = next
  /\ userAction' = IF GetUserAction(a) THEN userAction \ {a} ELSE userAction
  /\ evals' = IF GetUserAction(a) THEN Append(evals, FunctionOf(a)) ELSE evals
  /\ worhp_o' = IF ~GetUserAction(a) THEN worhp_o
                ELSE IF a = "evalF" THEN [worhp_o EXCEPT !.F = nlp_f(worhp_o.X)]
                ELSE IF a = "evalG" THEN [worhp_o EXCEPT !.G = nlp_g(worhp_o.X)]
                ELSE worhp_o
  /\ outputs' = IF GetUserAction(a) /\ a = "evalF"
                THEN [outputs EXCEPT !.f = nlp_f(worhp_o.X)] ELSE outputs
  /\ UNCHANGED <<status, firstIteration, has_callback, cb_calls, iter_outputs,
                 return_code, return_status, inputs, linsolVars, initVars, nodeVars, hessVars, memVars>>

\* if (GetUserAction(fidif)) WorhpFidif(...);
\* if (GetUserAction(evalHM)) { calc_function(m, "nlp_hess_l"); the diagonal
\* moved to the end; DoneUserAction(evalHM); }  hv: what nlp_hess_l returns
EvalHM(hv) ==
  /\ pc = "evalHM"
  /\ pc' = "fidif"
  /\ userAction' = IF GetUserAction("evalHM") THEN userAction \ {"evalHM"} ELSE userAction
  /\ evals' = IF GetUserAction("evalHM") THEN Append(evals, FunctionOf("evalHM")) ELSE evals
  /\ IF GetUserAction("evalHM")
     THEN LET filled == [k \in DOMAIN HM.val |->
                           IF k < Nnz(hesslag_sp) THEN hv[k] ELSE HM.val[k]]
              cp == HMCompact(hesslag_sp, filled)
          IN  /\ HM' = [HM EXCEPT !.val = cp.val]
              /\ hm_hist' = [done |-> TRUE, hv |-> hv, writes |-> cp.writes, ind |-> cp.ind]
     ELSE UNCHANGED <<HM, hm_hist>>
  /\ UNCHANGED <<status, firstIteration, has_callback, cb_calls, iter_outputs,
                 return_code, return_status, inputs, worhp_o, outputs, hesslag_sp,
                 linsolVars, initVars, nodeVars, memVars>>

Fidif ==
  /\ pc = "fidif"
  /\ pc' = "while"
  /\ IF GetUserAction("fidif")
     THEN /\ status' \in StatusSamples /\ userAction' \in RequestSamples
          /\ evals' = Append(evals, "WorhpFidif")
     ELSE UNCHANGED <<status, userAction, evals>>
  /\ UNCHANGED <<firstIteration, has_callback, cb_calls, iter_outputs,
                 return_code, return_status, inputs, worhp_o, outputs, linsolVars, initVars, nodeVars, hessVars, memVars>>

\* after the loop: copy the outputs, return_code and return_status
CopyOut ==
  /\ pc = "copyout"
  /\ pc' = "done"
  /\ return_code' = status
  /\ return_status' = return_codes(status)
  /\ outputs' = [outputs EXCEPT !.x = worhp_o.X, !.g = worhp_o.G,
                                !.lam_x = worhp_o.Lambda, !.lam_g = worhp_o.Mu]
  /\ UNCHANGED <<status, userAction, firstIteration, has_callback, cb_calls, iter_outputs,
                 evals, inputs, worhp_o, linsolVars, initVars, nodeVars, hessVars, memVars>>

\* ------------------------------------------- HorzRepmat, HorzRepsum (MX nodes)
\* repmat(sp, 1, n): the pattern n times side by side
RepmatSparsity(sp, n) ==
  [size1 |-> sp.size1, size2 |-> sp.size2 * n,
   nz |-> {<<e[1], e[2] + i * sp.size2>> : e \in sp.nz, i \in Idx(n)}]

\* block i of horzsplit(sp, sp.size2 / n)
HorzsplitBlock(sp, n, i) ==
  LET wd == sp.size2 \div n
  IN  {<<e[1], e[2] - i * wd>> : e \in {f \in sp.nz : f[2] >= i * wd /\ f[2] < (i + 1) * wd}}

\* the sum (union) of the n blocks: the pattern of a HorzRepsum node
RepsumSparsity(sp, n) ==
  [size1 |-> sp.size1, size2 |-> sp.size2 \div n,
   nz |-> UNION {HorzsplitBlock(sp, n, i) : i \in Idx(n)}]

\* project(x, goal): x on the pattern goal, zero where x has no entry
Project(m, goal) ==
  [sp |-> goal,
   nz |-> [k \in Idx(Nnz(goal)) |->
             IF NzAt(goal, k) \in m.sp.nz THEN m.nz[NzIndex(m.sp, NzAt(goal, k))] ELSE 0]]

\* HorzRepmat::evalGen: for (i < n_) copy(arg[0], arg[0]+nnz, res[0]+i*nnz)
HorzRepmat_evalGen(a, nnz, n) == [j \in Idx(n * nnz) |-> a[j % nnz]]

\* a plausible slip: dependency marks combined with & instead of |
ReduceAnd(red, a, b) == IF red = "sum" THEN a + b ELSE a \cap b

\* the reduction of HorzRepsum::evalGen: + for values, | for dependency marks
Reduce(red, a, b) == IF red = "sum" THEN a + b ELSE a \cup b
ReduceZero(red) == IF red = "sum" THEN 0 ELSE {}

\* for (i < n_) transform(arg[0]+i*nnz, arg[0]+(i+1)*nnz, res[0], res[0], reduction)
RECURSIVE RepsumLoop(_, _, _, _, _, _)
RepsumLoop(a, nnz, n, red, i, acc) ==
  IF i >= n THEN acc
  ELSE RepsumLoop(a, nnz, n, red, i + 1, [k \in Idx(nnz) |-> Reduce(red, a[i * nnz + k], acc[k])])

\* a plausible slip: only the first block is reduced
HorzRepsum_evalGenFirst(a, nnz, n, red) ==
  RepsumLoop(a, nnz, 1, red, 0, [k \in Idx(nnz) |-> ReduceZero(red)])

\* HorzRepsum::evalGen: fill_n(res[0], nnz, 0) and the loop over the blocks
HorzRepsum_evalGen(a, nnz, n, red) ==
  RepsumLoop(a, nnz, n, red, 0, [k \in Idx(nnz) |-> ReduceZero(red)])

\* HorzRepmat(x, n) and its eval
HorzRepmat_eval(m, n) ==
  [sp |-> RepmatSparsity(m.sp, n), nz |-> HorzRepmat_evalGen(m.nz, Nnz(m.sp), n)]

\* HorzRepsum(x, n) and its eval: the dependency is x projected onto the
\* block pattern repeated n times
HorzRepsum_eval(m, n) ==
  LET block == RepsumSparsity(m.sp, n)
      dep == Project(m, RepmatSparsity(block, n))
  IN  [sp |-> block, nz |-> HorzRepsum_evalGen(dep.nz, Nnz(block), n, "sum")]

\* the patterns and matrices the expressions are evaluated on
Ones22 == [size1 |-> 2, size2 |-> 2, nz |-> {<<0, 0>>, <<1, 0>>, <<0, 1>>, <<1, 1>>}]
Diag22 == [size1 |-> 2, size2 |-> 2, nz |-> {<<0, 0>>, <<1, 1>>}]
Row13 == [size1 |-> 1, size2 |-> 3, nz |-> {<<0, 0>>, <<0, 2>>}]
Empty11 == [size1 |-> 1, size2 |-> 1, nz |-> {}]
NodePatterns == {Ones22, Diag22, Row13, Empty11}
NodeVals == {-1, 1}
NodeInputs ==
  UNION {{[sp |-> sp, nz |-> v] : v \in [Idx(Nnz(sp)) -> NodeVals] \cup {[k \in Idx(Nnz(sp)) |-> 0]}}
           : sp \in NodePatterns}

\* no expression under evaluation
NodeIdle ==
  /\ nd_n = 1 /\ nd_x = [sp |-> Empty11, nz |-> <<>>]
  /\ nd_op = <<>> /\ nd_arg = <<>> /\ nd_y = [sp |-> Empty11, nz |-> <<>>]

\* an input matrix and a replication count, nothing evaluated yet
NodeInitial ==
  /\ nd_n \in 1..MaxTiles /\ nd_x \in NodeInputs
  /\ nd_op = <<>> /\ nd_arg = <<>> /\ nd_y = nd_x

\* the value the next node is applied to: the input or the last value
IsValue == nd_op \in {<<>>, <<"repmat">>, <<"repsum">>}

\* values of the derivative seeds
SeedVals == {0, 1, 2}
Seeds(nnz) == [Idx(nnz) -> SeedVals]

\* a plausible slip: only the first tile of the seed reaches the input
HorzRepmat_evalAdjFirst(aseed, asens0, nnz, n) ==
  [k \in Idx(nnz) |-> asens0[k] + aseed[k]]

\* HorzRepmat::evalAdj: asens += repsum(aseed, 1, n_)
HorzRepmat_evalAdj(aseed, asens0, nnz, n) ==
  [k \in Idx(nnz) |-> asens0[k] + HorzRepsum_evalGen(aseed, nnz, n, "sum")[k]]

\* HorzRepsum::evalAdj: asens += repmat(aseed, 1, n_)
HorzRepsum_evalAdj(aseed, asens0, nnz, n) ==
  [j \in Idx(n * nnz) |-> asens0[j] + HorzRepmat_evalGen(aseed, nnz, n)[j]]

\* reverse mode of the HorzRepmat node of the input: aseed on the output,
\* asens0 what the input's sensitivity holds already
RepmatAdj(aseed, asens0) ==
  /\ nd_op = <<>>
  /\ nd_op' = <<"repmat.adj">>
  /\ nd_arg' = [aseed |-> aseed, asens0 |-> asens0]
  /\ nd_y' = [sp |-> nd_x.sp, nz |-> HorzRepmat_evalAdj(aseed, asens0, Nnz(nd_x.sp), nd_n)]
  /\ UNCHANGED <<nd_n, nd_x, linsolVars, initVars, worhpVars>>

\* reverse mode of the HorzRepsum node of the input
RepsumAdj(aseed, asens0) ==
  LET block == RepsumSparsity(nd_x.sp, nd_n)
  IN  /\ nd_op = <<>>
      /\ nd_x.sp.size2 % nd_n = 0
      /\ nd_op' = <<"repsum.adj">>
      /\ nd_arg' = [aseed |-> aseed, asens0 |-> asens0]
      /\ nd_y' = [sp |-> RepmatSparsity(block, nd_n),
                  nz |-> HorzRepsum_evalAdj(aseed, asens0, Nnz(block), nd_n)]
      /\ UNCHANGED <<nd_n, nd_x, linsolVars, initVars, worhpVars>>

\* dependency marks (bvec_t): the set of the bits that are set
MarkVals == {{}, {0}, {0, 1}}
Marks(nnz) == [Idx(nnz) -> MarkVals]

\* HorzRepmat::sp_fwd: evalGen on bvec_t
HorzRepmat_sp_fwd(a, nnz, n) == HorzRepmat_evalGen(a, nnz, n)

\* HorzRepsum::sp_fwd: evalGen on bvec_t with the reduction |
HorzRepsum_sp_fwd(a, nnz, n) == HorzRepsum_evalGen(a, nnz, n, "or")

\* HorzRepmat::sp_rev: arg[0][k] |= res[0][i*nnz+k] for every tile i, then
\* the marks of the result are cleared
HorzRepmat_sp_rev(a, rs, nnz, n) ==
  [arg |-> [k \in Idx(nnz) |-> a[k] \cup HorzRepsum_evalGen(rs, nnz, n, "or")[k]],
   res |-> [j \in Idx(n * nnz) |-> {}]]

\* HorzRepsum::sp_rev: arg[0][i*nnz+k] |= res[0][k] for every block i, then
\* the marks of the result are cleared
HorzRepsum_sp_rev(a, rs, nnz, n) ==
  [arg |-> [j \in Idx(n * nnz) |-> a[j] \cup HorzRepmat_evalGen(rs, nnz, n)[j]],
   res |-> [k \in Idx(nnz) |-> {}]]

\* forward propagation through the HorzRepmat / HorzRepsum node of the input
RepmatSpFwd(a) ==
  /\ nd_op = <<>>
  /\ nd_op' = <<"repmat.sp_fwd">>
  /\ nd_arg' = [arg |-> a]
  /\ nd_y' = [res |-> HorzRepmat_sp_fwd(a, Nnz(nd_x.sp), nd_n)]
  /\ UNCHANGED <<nd_n, nd_x, linsolVars, initVars, worhpVars>>

RepsumSpFwd(a) ==
  /\ nd_op = <<>>
  /\ nd_x.sp.size2 % nd_n = 0
  /\ nd_op' = <<"repsum.sp_fwd">>
  /\ nd_arg' = [arg |-> a]
  /\ nd_y' = [res |-> HorzRepsum_sp_fwd(a, Nnz(RepsumSparsity(nd_x.sp, nd_n)), nd_n)]
  /\ UNCHANGED <<nd_n, nd_x, linsolVars, initVars, worhpVars>>

\* backward propagation: a the marks the input holds, rs those of the result
RepmatSpRev(a, rs) ==
  /\ nd_op = <<>>
  /\ nd_op' = <<"repmat.sp_rev">>
  /\ nd_arg' = [arg |-> a, res |-> rs]
  /\ nd_y' = HorzRepmat_sp_rev(a, rs, Nnz(nd_x.sp), nd_n)
  /\ UNCHANGED <<nd_n, nd_x, linsolVars, initVars, worhpVars>>

RepsumSpRev(a, rs) ==
  /\ nd_op = <<>>
  /\ nd_x.sp.size2 % nd_n = 0
  /\ nd_op' = <<"repsum.sp_rev">>
  /\ nd_arg' = [arg |-> a, res |-> rs]
  /\ nd_y' = HorzRepsum_sp_rev(a, rs, Nnz(RepsumSparsity(nd_x.sp, nd_n)), nd_n)
  /\ UNCHANGED <<nd_n, nd_x, linsolVars, initVars, worhpVars>>

\* ----------------------------------------------------------- Rank1 (MX node)
\* int n_inplace() const override { return 1;}
n_inplace == 1

\* The work vector of an evaluation: A's nonzeros, alpha, x, y, and a
\* separate region for the result, which holds Junk before the evaluation.
Rank1ArgPtr(A) ==
  <<0, Nnz(A.sp), Nnz(A.sp) + 1, Nnz(A.sp) + 1 + A.sp.size1>>
Rank1Fresh(A) == Nnz(A.sp) + 1 + A.sp.size1 + A.sp.size2
Rank1Work(A, alpha, xv, yv) ==
  [a \in Idx(Rank1Fresh(A) + Nnz(A.sp)) |->
     IF a < Nnz(A.sp) THEN A.nz[a]
     ELSE IF a = Nnz(A.sp) THEN alpha
     ELSE IF a < Nnz(A.sp) + 1 + A.sp.size1 THEN xv[a - (Nnz(A.sp) + 1)]
     ELSE IF a < Rank1Fresh(A) THEN yv[a - (Nnz(A.sp) + 1 + A.sp.size1)]
     ELSE Junk]

\* where the result may be placed: a region of its own, or on top of one of
\* the first n_inplace operands
Rank1ResPtrs(A) == {Rank1Fresh(A)} \cup {Rank1ArgPtr(A)[k] : k \in 1..n_inplace}

\* casadi_rank1(A, sp_A, alpha, x, y): A[el] += alpha*x[rr]*y[cc]
RECURSIVE casadi_rank1(_, _, _, _, _, _, _)
casadi_rank1(wk, Ap, sp, alpha, xp, yp, el) ==
  IF el >= Nnz(sp) THEN wk
  ELSE LET e == NzAt(sp, el)
           v == wk[Ap + el] + alpha * wk[xp + e[1]] * wk[yp + e[2]]
       IN  casadi_rank1([wk EXCEPT ![Ap + el] = v], Ap, sp, alpha, xp, yp, el + 1)

\* a plausible slip: the copy of A into the result left out
Rank1_evalGenNoCopy(wk, argp, resp, sp) ==
  casadi_rank1(wk, resp, sp, wk[argp[2]], argp[3], argp[4], 0)

\* Rank1::evalGen: if (arg[0]!=res[0]) copy(arg[0], arg[0]+nnz, res[0]);
\*                 casadi_rank1(res[0], sparsity(), *arg[1], arg[2], arg[3]);
Rank1_evalGen(wk, argp, resp, sp) ==
  LET w1 == IF argp[1] # resp
            THEN [a \in DOMAIN wk |->
                    IF a >= resp /\ a < resp + Nnz(sp) THEN wk[argp[1] + (a - resp)] ELSE wk[a]]
            ELSE wk
  IN  casadi_rank1(w1, resp, sp, w1[argp[2]], argp[3], argp[4], 0)

Rank1Vals == {-1, 0, 2}

\* evaluate Rank1(A, alpha, x, y) with A the input matrix
Rank1Eval(alpha, xv, yv, resp) ==
  LET wk == Rank1_evalGen(Rank1Work(nd_x, alpha, xv, yv), Rank1ArgPtr(nd_x), resp, nd_x.sp)
  IN  /\ nd_op = <<>>
      /\ nd_n = 1
      /\ nd_op' = <<"rank1">>
      /\ nd_arg' = [alpha |-> alpha, x |-> xv, y |-> yv, res |-> resp]
      /\ nd_y' = [sp |-> nd_x.sp, nz |-> [k \in Idx(Nnz(nd_x.sp)) |-> wk[resp + k]], work |-> wk]
      /\ UNCHANGED <<nd_n, nd_x, linsolVars, initVars, worhpVars>>

\* the buffer sizes of the two nodes of the input, while seeds are enumerated
RepmatSmall == nd_n * Nnz(nd_x.sp) <= MaxSeedNnz
RepsumSmall ==
  nd_x.sp.size2 % nd_n = 0 /\ nd_n * Nnz(RepsumSparsity(nd_x.sp, nd_n)) <= MaxSeedNnz
BlockNnz == Nnz(RepsumSparsity(nd_x.sp, nd_n))

\* evaluate a HorzRepmat node on the current value
Repmat ==
  /\ IsValue
  /\ nd_op' = Append(nd_op, "repmat")
  /\ nd_y' = HorzRepmat_eval(nd_y, nd_n)
  /\ UNCHANGED <<nd_n, nd_x, nd_arg, linsolVars, initVars, worhpVars>>

\* evaluate a HorzRepsum node on the current value; the constructor asserts
\* that the column count is a multiple of n
Repsum ==
  /\ IsValue
  /\ nd_y.sp.size2 % nd_n = 0
  /\ nd_op' = Append(nd_op, "repsum")
  /\ nd_y' = HorzRepsum_eval(nd_y, nd_n)
  /\ UNCHANGED <<nd_n, nd_x, nd_arg, linsolVars, initVars, worhpVars>>


Init == LinsolInit /\ InitIdle /\ WorhpIdle /\ NodeIdle

Next ==
  \/ \E sp \in Patterns : \E btf \in BtfOf[sp] : \E sz \in SzSamples : Reset(sp, btf, sz)
  \/ \E sp \in Patterns : \E A \in MatricesOf[sp] : Factorize(sp, A)
  \/ \E xin \in XBufs(nrow) : \E nrhs \in 1..MaxRhs : \E tr \in BOOLEAN : Solve(xin, nrhs, tr)

Spec == Init /\ [][Next]_vars

\* ------------------------------------------------------------ init alone
InitI == LinsolInit /\ InitPre /\ WorhpIdle /\ NodeIdle

NextI ==
  \/ \E o \in OptionDicts : DoInit(o)
  \/ \E btf \in BtfOf[Dense2] : \E sz \in SzSamples : Reset(Dense2, btf, sz)

SpecInit == InitI /\ [][NextI]_vars

\* ----------------------------------------------- the loop of the NLP adapter
InitW == LinsolInit /\ InitIdle /\ WorhpInitial /\ NodeIdle

NextW ==
  \/ \E inp \in InputSamples : Enter(inp)
  \/ While
  \/ CallWorhp
  \/ IterOutput
  \/ Eval("evalF", "evalF", "evalG")
  \/ Eval("evalG", "evalG", "evalDF")
  \/ Eval("evalDF", "evalDF", "evalDG")
  \/ Eval("evalDG", "evalDG", "evalHM")
  \/ EvalHM(HessSample1(hesslag_sp))
  \/ Fidif
  \/ CopyOut

SpecWorhp == InitW /\ [][NextW]_vars

\* ---- the Hessian: every pattern, one set of inputs, two sets of values
InitH == LinsolInit /\ InitIdle /\ WorhpInitialHess /\ NodeIdle

NextH ==
  \/ Enter(InputDefault)
  \/ While
  \/ CallWorhp
  \/ IterOutput
  \/ Eval("evalF", "evalF", "evalG")
  \/ Eval("evalG", "evalG", "evalDF")
  \/ Eval("evalDF", "evalDF", "evalDG")
  \/ Eval("evalDG", "evalDG", "evalHM")
  \/ \E hv \in HessSamples(hesslag_sp) : EvalHM(hv)
  \/ Fidif
  \/ CopyOut

SpecHess == InitH /\ [][NextH]_vars

\* ---- the life of a WorhpMemory: constructed, init_memory, any number of
\* ---- set_work, destroyed
InitM == LinsolInit /\ InitIdle /\ WorhpConstructed /\ NodeIdle

NextM ==
  \/ \E ok \in BOOLEAN : InitMemory(ok)
  \/ \E out \in WorhpInitOutcomes : SetWork(out)
  \/ Destroy

SpecMem == InitM /\ [][NextM]_vars

\* ------------------------------------------------- the structural MX nodes
InitN == LinsolInit /\ InitIdle /\ WorhpIdle /\ NodeInitial

NextN ==
  \/ Repmat
  \/ Repsum
  \/ RepmatSmall /\ \E aseed \in Seeds(nd_n * Nnz(nd_x.sp)) :
        \E asens0 \in {[k \in Idx(Nnz(nd_x.sp)) |-> c] : c \in {0, 1}} : RepmatAdj(aseed, asens0)
  \/ RepsumSmall /\ \E aseed \in Seeds(BlockNnz) :
        \E asens0 \in {[k \in Idx(nd_n * BlockNnz) |-> c] : c \in {0, 1}} : RepsumAdj(aseed, asens0)
  \/ RepmatSmall /\ \E a \in Marks(Nnz(nd_x.sp)) : RepmatSpFwd(a)
  \/ RepsumSmall /\ \E a \in Marks(nd_n * BlockNnz) : RepsumSpFwd(a)
  \/ RepmatSmall /\ \E rs \in Marks(nd_n * Nnz(nd_x.sp)) :
        \E a \in {[k \in Idx(Nnz(nd_x.sp)) |-> c] : c \in {{}, {1}}} : RepmatSpRev(a, rs)
  \/ RepsumSmall /\ \E rs \in Marks(BlockNnz) :
        \E a \in {[k \in Idx(nd_n * BlockNnz) |-> c] : c \in {{}, {1}}} : RepsumSpRev(a, rs)
  \/ \E alpha \in Rank1Vals : \E xv \in [Idx(nd_x.sp.size1) -> Rank1Vals] :
        \E yv \in [Idx(nd_x.sp.size2) -> Rank1Vals] : \E resp \in Rank1ResPtrs(nd_x) :
          Rank1Eval(alpha, xv, yv, resp)

SpecNodes == InitN /\ [][NextN]_vars


\* ------------------------------------------------------------------ claims
\* the true inverse of a bijection p of [0, n)
InverseOf(p, n) == [c \in Idx(n) |-> CHOOSE k \in Idx(n) : p[k] = c]

\* A(rowperm, colperm)
Permuted(A, rp, cp, n) == [i \in Idx(n), j \in Idx(n) |-> A[rp[i], cp[j]]]

SolveDone == call.op = "solve" /\ ValidFactors(q, r, nrow)

\* C1: after reset, factorize(A) and solve(x=b, nrhs, false), every solved
\* segment of x holds the solution of A*x = b; it is the solution xperm of the
\* permuted system Aperm*xperm = bperm read through the inverse column
\* permutation, x[c] = xperm[inv_colperm[c]].
C1_SolveSolvesSystem ==
  (SolveDone /\ ~call.tr) =>
    LET n == nrow
        rp == fn.factorize.rowperm
        cp == fn.factorize.colperm
        Aperm == Permuted(Aval, rp, cp, n)
    IN  \A i \in Idx(call.nrhs) :
          LET b == Segment(x0, i, n)
              xs == Segment(x, i, n)
              xperm == SolveLin(Aperm, [k \in Idx(n) |-> b[rp[k]]], n)
          IN  /\ MatVec(Aval, xs, n) = b
              /\ \A c \in Idx(n) : xs[c] = xperm[InverseOf(cp, n)[c]]

\* the 3x3 identity with b = [1,2,3] gives x = [1,2,3], under permutations
\* that are not the identity and differ from each other
C1_Witness ==
  /\ SolveDone /\ ~call.tr /\ nrow = 3
  /\ Aval = [i \in Idx(3), j \in Idx(3) |-> IF i = j THEN 1 ELSE 0]
  /\ Segment(x0, 0, 3) = [k \in Idx(3) |-> k + 1]
  /\ Segment(x, 0, 3) = [k \in Idx(3) |-> k + 1]
  /\ fn.factorize.colperm = [k \in Idx(3) |-> (k + 1) % 3]
  /\ fn.factorize.rowperm = [k \in Idx(3) |-> (3 - k) % 3]

\* C2: solve with transposed=true returns x with transpose(A)*x = b, and
\* without the flag x with A*x = b; the transposed Function permutes b by the
\* column permutation and un-permutes by the inverse row permutation.
C2_SolveTransposed ==
  /\ SolveDone =>
       \A i \in Idx(call.nrhs) :
         MatVec(IF call.tr THEN Transpose(Aval, nrow) ELSE Aval, Segment(x, i, nrow), nrow)
           = Segment(x0, i, nrow)
  /\ ~fn.solveT.null =>
       /\ fn.solveT.b_idx = fn.factorize.colperm
       /\ fn.solveT.x_idx = InverseOf(fn.factorize.rowperm, nrow)
       /\ fn.solveT.tr /\ ~fn.solve.tr

\* a transposed solve of a matrix that is not symmetric, under a row
\* permutation that is not its own inverse
C2_Witness ==
  /\ SolveDone /\ call.tr /\ nrow = 3
  /\ Aval # Transpose(Aval, 3)
  /\ fn.factorize.rowperm = [k \in Idx(3) |-> (k + 1) % 3]
  /\ Segment(x, 0, 3) # Segment(x0, 0, 3)

\* C3: the inverses computed in reset satisfy inv[perm[k]] = k, are
\* bijections with every slot written exactly once, and compose with perm to
\* the identity in both orders.
C3_InverseOfPerm(perm, inv, n) ==
  /\ \A k \in Idx(n) : inv[perm[k]] = k
  /\ \A c \in Idx(n) : perm[inv[c]] = c
  /\ inv \in Perms(n)
  /\ \A c \in Idx(n) : InvertRun(perm, n).cnt[c] = 1

C3_InversePermutations ==
  ~fn.factorize.null =>
    /\ C3_InverseOfPerm(fn.factorize.colperm, fn.solve.x_idx, nrow)
    /\ C3_InverseOfPerm(fn.factorize.rowperm, fn.solveT.x_idx, nrow)

\* a reset whose column permutation is a 3-cycle (not its own inverse)
C3_Witness ==
  /\ call.op = "reset" /\ nrow = 3
  /\ fn.factorize.colperm = [k \in Idx(3) |-> (k + 1) % 3]
  /\ fn.solve.x_idx = [k \in Idx(3) |-> (k + 2) % 3]
  /\ fn.factorize.rowperm = [k \in Idx(3) |-> (3 - k) % 3]

\* C4: solve overwrites segment i of x, for i < nrhs, with the result of the
\* solve Function on segment i of the entry contents alone, which with valid
\* factors is the solution for that right-hand side, and writes nothing at
\* or beyond x[nrhs*nrow].
C4_SegmentsIndependent ==
  call.op = "solve" =>
    /\ \A i \in Idx(call.nrhs) :
         /\ Segment(x, i, nrow) = EvalSolve(SelectSolve(call.tr), q, r, Segment(x0, i, nrow))
         /\ ValidFactors(q, r, nrow) =>
              MatVec(IF call.tr THEN Transpose(Aval, nrow) ELSE Aval,
                     Segment(x, i, nrow), nrow) = Segment(x0, i, nrow)
    /\ DOMAIN x = DOMAIN x0
    /\ \A k \in DOMAIN x : k >= call.nrhs * nrow => x[k] = x0[k]

\* a solve of one right-hand side fewer than the buffer holds: the first
\* segment is replaced by a different solution, the last one is untouched
C4_Witness ==
  /\ SolveDone /\ call.nrhs = MaxRhs - 1 /\ nrow = 3
  /\ Segment(x, 0, 3) # Segment(x0, 0, 3)
  /\ Segment(x, MaxRhs - 1, 3) = Segment(x0, MaxRhs - 1, 3)
  /\ Segment(x0, MaxRhs - 1, 3) # Segment(x0, 0, 3)

\* the three Functions of the latest reset
Fns == {fn.factorize, fn.solve, fn.solveT}

MaxSzW == Max2(fn.factorize.sz_w, Max2(fn.solve.sz_w, fn.solveT.sz_w))

\* C5: after any sequence of resets arg, res and iw cover every Function of
\* the latest reset, and w covers the largest sz_w plus the row count.
C5_BuffersCover ==
  ~fn.factorize.null =>
    /\ \A f \in Fns : arg >= f.sz_arg /\ res >= f.sz_res /\ iw >= f.sz_iw
    /\ w >= MaxSzW + nrow

\* a second reset: w has grown beyond what the latest Functions need
C5_Witness ==
  /\ call.op = "reset"
  /\ w > MaxSzW + nrow
  /\ MaxSzW > 0

\* C6: solve only runs with factors produced by a factorize that happened
\* after the most recent reset.
C6_SolveOnlyAfterFactorize == call.op = "solve" => call.fresh

\* C7: a factorize that fails numerically leaves valid stored factors as
\* they were.
C7_FailedFactorizeKeepsFactors ==
  [][(call'.op = "factorize" /\ call'.status = "singular" /\ ValidFactors(q, r, nrow))
       => (q' = q /\ r' = r)]_vars


C9_CallbackEvaluated == (has_callback /\ iter_outputs >= 2) => cb_calls >= 1

\* the statuses a run can show: the listed ones and their neighbours
StatusRange == (TerminateError - Len(ErrorNames))..(TerminateSuccess + Len(SuccessNames))

\* return_codes gives each listed enumerator its own name and every other
\* integer of the range "Unknown WORHP return code"
ReturnCodesTable ==
  /\ \A c \in StatusRange :
       /\ \A name \in ListedNames : c = StatusCode(name) => return_codes(c) = name
       /\ (\A name \in ListedNames : c # StatusCode(name))
            => return_codes(c) = "Unknown WORHP return code"
  /\ \A n1, n2 \in ListedNames : StatusCode(n1) = StatusCode(n2) => n1 = n2

\* C10: the loop body is entered only with the status strictly between
\* TerminateError and TerminateSuccess and left for good only with it outside;
\* on return return_code is the final status and return_status the name
\* return_codes gives it: for each listed enumerator its own name, for every
\* other integer "Unknown WORHP return code".
C10_LoopAndReturnCodes ==
  /\ pc = "callWorhp" => (status < TerminateSuccess /\ status > TerminateError)
  /\ pc \in {"copyout", "done"} => (status >= TerminateSuccess \/ status <= TerminateError)
  /\ pc = "done" =>
       /\ return_code = status
       /\ return_status = return_codes(status)
       /\ \A name \in ListedNames : status = StatusCode(name) => return_status = name
       /\ (\A name \in ListedNames : status # StatusCode(name))
            => return_status = "Unknown WORHP return code"
  /\ ReturnCodesTable

\* a run that ends with MaxIter after an iteration output
C10_Witness ==
  /\ pc = "done" /\ return_status = "MaxIter" /\ return_code = StatusCode("MaxIter")
  /\ iter_outputs >= 1


\* C11: tiled replication followed by tiled reduction-sum with the same n gives
\* n*X on X's nonzeros with X's pattern; the replication itself gives X's
\* pattern n times side by side with X's buffer copied n times contiguously.
C11_RepmatRepsumRoundTrip ==
  /\ (nd_op # <<>> /\ nd_op[1] = "repmat") =>
       LET y == HorzRepmat_eval(nd_x, nd_n)
           nnz == Nnz(nd_x.sp)
       IN  /\ Len(nd_op) = 1 => nd_y = y
           /\ y.sp.size1 = nd_x.sp.size1 /\ y.sp.size2 = nd_n * nd_x.sp.size2
           /\ \A rr \in Idx(y.sp.size1), cc \in Idx(y.sp.size2) :
                <<rr, cc>> \in y.sp.nz <=> <<rr, cc % nd_x.sp.size2>> \in nd_x.sp.nz
           /\ DOMAIN y.nz = Idx(nd_n * nnz)
           /\ \A i \in Idx(nd_n), k \in Idx(nnz) : y.nz[i * nnz + k] = nd_x.nz[k]
  /\ nd_op = <<"repmat", "repsum">> =>
       /\ nd_y.sp = nd_x.sp
       /\ DOMAIN nd_y.nz = Idx(Nnz(nd_x.sp))
       /\ \A k \in Idx(Nnz(nd_x.sp)) : nd_y.nz[k] = nd_n * nd_x.nz[k]

\* the 2x2 all-ones matrix, n = 3, replicated and reduced again
C11_Witness ==
  /\ nd_op = <<"repmat", "repsum">> /\ nd_n = 3
  /\ nd_x = [sp |-> Ones22, nz |-> [k \in Idx(4) |-> 1]]
  /\ nd_y.nz = [k \in Idx(4) |-> 3]


RECURSIVE DotTo(_, _, _)
DotTo(a, b, k) == IF k = 0 THEN 0 ELSE a[k - 1] * b[k - 1] + DotTo(a, b, k - 1)
\* inner product of two buffers of nnz entries
Dot(a, b, nnz) == DotTo(a, b, nnz)

RECURSIVE TileSum(_, _, _, _)
\* the sum of entry k over the first i tiles of a seed
TileSum(a, nnz, k, i) == IF i = 0 THEN 0 ELSE a[(i - 1) * nnz + k] + TileSum(a, nnz, k, i - 1)

\* C12: the reverse mode of replication adds the sum of the n tiles of the
\* output seed to the input's sensitivity, the reverse mode of reduction-sum
\* adds the output seed unchanged to each of the n blocks, and for both
\* <s, J*v> = <J^T*s, v> for every seed s and direction v.
C12_Adjoint ==
  /\ nd_op = <<"repmat.adj">> =>
       LET nnz == Nnz(nd_x.sp)
           jts == [k \in Idx(nnz) |-> nd_y.nz[k] - nd_arg.asens0[k]]
       IN  /\ \A k \in Idx(nnz) : jts[k] = TileSum(nd_arg.aseed, nnz, k, nd_n)
           /\ \A v \in Seeds(nnz) :
                Dot(nd_arg.aseed, HorzRepmat_evalGen(v, nnz, nd_n), nd_n * nnz) = Dot(jts, v, nnz)
  /\ nd_op = <<"repsum.adj">> =>
       LET nnz == BlockNnz
           jts == [j \in Idx(nd_n * nnz) |-> nd_y.nz[j] - nd_arg.asens0[j]]
       IN  /\ \A i \in Idx(nd_n), k \in Idx(nnz) : jts[i * nnz + k] = nd_arg.aseed[k]
           /\ \A v \in Seeds(nd_n * nnz) :
                Dot(nd_arg.aseed, HorzRepsum_evalGen(v, nnz, nd_n, "sum"), nnz) = Dot(jts, v, nd_n * nnz)

\* a replication with two tiles whose seed differs between the tiles, onto a
\* sensitivity that is not zero
C12_Witness ==
  /\ nd_op = <<"repmat.adj">> /\ nd_n = 2 /\ nd_x.sp = Diag22
  /\ nd_arg.aseed = [j \in Idx(4) |-> IF j < 2 THEN 1 ELSE 2]
  /\ nd_arg.asens0 = [k \in Idx(2) |-> 1]
  /\ nd_y.nz = [k \in Idx(2) |-> 4]


\* C13: forward through reduction-sum, a bit of output element k is set iff
\* it is set in input element k of at least one block; forward through
\* replication, element k of every tile carries the marks of input element k;
\* backward, an input element keeps its marks and gains those of exactly the
\* output elements it contributes to.
C13_SparsityPropagation ==
  /\ nd_op = <<"repsum.sp_fwd">> =>
       \A k \in Idx(BlockNnz), b \in {0, 1} :
         b \in nd_y.res[k] <=> \E i \in Idx(nd_n) : b \in nd_arg.arg[i * BlockNnz + k]
  /\ nd_op = <<"repmat.sp_fwd">> =>
       /\ DOMAIN nd_y.res = Idx(nd_n * Nnz(nd_x.sp))
       /\ \A i \in Idx(nd_n), k \in Idx(Nnz(nd_x.sp)) :
            nd_y.res[i * Nnz(nd_x.sp) + k] = nd_arg.arg[k]
  /\ nd_op = <<"repmat.sp_rev">> =>
       \A k \in Idx(Nnz(nd_x.sp)), b \in {0, 1} :
         b \in nd_y.arg[k] <=>
           (b \in nd_arg.arg[k] \/ \E i \in Idx(nd_n) : b \in nd_arg.res[i * Nnz(nd_x.sp) + k])
  /\ nd_op = <<"repsum.sp_rev">> =>
       \A i \in Idx(nd_n), k \in Idx(BlockNnz), b \in {0, 1} :
         b \in nd_y.arg[i * BlockNnz + k] <=>
           (b \in nd_arg.arg[i * BlockNnz + k] \/ b \in nd_arg.res[k])

\* a reduction over two blocks in which a bit is set in one block only
C13_Witness ==
  /\ nd_op = <<"repsum.sp_fwd">> /\ nd_n = 2 /\ nd_x.sp = Diag22
  /\ nd_arg.arg = [j \in Idx(4) |-> IF j = 2 THEN {0, 1} ELSE IF j = 1 THEN {0} ELSE {}]
  /\ nd_y.res = [k \in Idx(2) |-> IF k = 0 THEN {0, 1} ELSE {0}]


\* C14: the rank-1 update with alpha = 0 returns A unchanged, and with A
\* all-zero it returns alpha*x*y^T on the nonzeros of the pattern; both
\* whether the result has a region of its own or is placed on A, the only
\* operand it may be placed on; x, y and alpha are left as they were.
C14_Rank1 ==
  nd_op = <<"rank1">> =>
    LET nnz == Nnz(nd_x.sp)
        argp == Rank1ArgPtr(nd_x)
    IN  /\ nd_arg.res \in {argp[1], Rank1Fresh(nd_x)}
        /\ nd_y.sp = nd_x.sp
        /\ nd_arg.alpha = 0 => nd_y.nz = nd_x.nz
        /\ (\A k \in Idx(nnz) : nd_x.nz[k] = 0) =>
             \A e \in nd_x.sp.nz :
               nd_y.nz[NzIndex(nd_x.sp, e)] = nd_arg.alpha * nd_arg.x[e[1]] * nd_arg.y[e[2]]
        /\ nd_y.work[argp[2]] = nd_arg.alpha
        /\ \A i \in Idx(nd_x.sp.size1) : nd_y.work[argp[3] + i] = nd_arg.x[i]
        /\ \A j \in Idx(nd_x.sp.size2) : nd_y.work[argp[4] + j] = nd_arg.y[j]
        /\ nd_arg.res # argp[1] => \A k \in Idx(nnz) : nd_y.work[argp[1] + k] = nd_x.nz[k]

\* an all-zero dense A updated in place with a nonzero outer product
C14_Witness ==
  /\ nd_op = <<"rank1">> /\ nd_x = [sp |-> Ones22, nz |-> [k \in Idx(4) |-> 0]]
  /\ nd_arg.res = 0 /\ nd_arg.alpha = 2
  /\ nd_arg.x = [i \in Idx(2) |-> IF i = 0 THEN -1 ELSE 2]
  /\ nd_arg.y = [j \in Idx(2) |-> IF j = 0 THEN 2 ELSE -1]
  /\ nd_y.nz = [k \in Idx(4) |-> IF k = 0 THEN -4 ELSE IF k = 1 THEN 8 ELSE IF k = 2 THEN 2 ELSE -4]


\* what a pass of the loop can call, in the order of the blocks of the body
PassOrder ==
  <<"Worhp", "IterationOutput", "nlp_f", "nlp_g", "nlp_grad_f", "nlp_jac_g", "nlp_hess_l",
    "WorhpFidif">>
PassPos(name) == CHOOSE k \in 1..Len(PassOrder) : PassOrder[k] = name

\* the evaluation block at a position of the body: its action and Function
EvalBlocks ==
  {<<"evalF", "nlp_f">>, <<"evalG", "nlp_g">>, <<"evalDF", "nlp_grad_f">>,
   <<"evalDG", "nlp_jac_g">>, <<"evalHM", "nlp_hess_l">>}

\* C15: in the step of an evaluation block, a pending action gets exactly one
\* evaluation of its Function and is then no longer pending, an action that
\* is not pending gets no evaluation; and the calls of one pass follow the
\* order solver step, iteration output, F, G, DF, DG, HM, finite differences.
C15_ActionsResolvedInOrder ==
  [][ /\ \A b \in EvalBlocks :
           pc = b[1] =>
             IF b[1] \in userAction
             THEN evals' = Append(evals, b[2]) /\ userAction' = userAction \ {b[1]}
             ELSE evals' = evals /\ userAction' = userAction
      /\ \A i, j \in 1..Len(evals') : i < j => PassPos(evals'[i]) < PassPos(evals'[j])
    ]_vars

\* a pass in which all eight actions were pending
C15_Witness == pc = "while" /\ evals = PassOrder


\* C16: a solve call whose bounds are invalid (lbx[i] = ubx[i] for some i with
\* both given, or lbg[i] = -inf and ubg[i] = +inf for some i with both given)
\* fails and leaves the solver's arrays, the status and the outputs as they
\* were, and the loop is not entered; any other call passes the inputs, with
\* -inf in XL, GL replaced by -Infty and +inf in XU, GU by +Infty.
C16_BoundsChecked ==
  [][ /\ pc = "entry" =>
           LET inp == inputs'
               bad == \/ /\ inp.lbx # Null /\ inp.ubx # Null
                         /\ \E i \in Idx(nx_) : inp.lbx[i] = inp.ubx[i]
                      \/ /\ inp.lbg # Null /\ inp.ubg # Null
                         /\ \E i \in Idx(ng_) : inp.lbg[i] = -inf /\ inp.ubg[i] = inf
           IN  IF bad
               THEN /\ pc' = "error" /\ worhp_o' = worhp_o /\ status' = status
                    /\ outputs' = outputs
               ELSE /\ pc' = "while"
                    /\ \A i \in Idx(nx_) :
                         /\ worhp_o'.XL[i] # -inf /\ worhp_o'.XU[i] # inf
                         /\ inp.lbx # Null =>
                              worhp_o'.XL[i] = IF inp.lbx[i] = -inf THEN -Infty ELSE inp.lbx[i]
                         /\ inp.ubx # Null =>
                              worhp_o'.XU[i] = IF inp.ubx[i] = inf THEN Infty ELSE inp.ubx[i]
                    /\ \A i \in Idx(ng_) :
                         /\ worhp_o'.GL[i] # -inf /\ worhp_o'.GU[i] # inf
                         /\ inp.lbg # Null =>
                              worhp_o'.GL[i] = IF inp.lbg[i] = -inf THEN -Infty ELSE inp.lbg[i]
                         /\ inp.ubg # Null =>
                              worhp_o'.GU[i] = IF inp.ubg[i] = inf THEN Infty ELSE inp.ubg[i]
      /\ pc = "error" => pc' = "error"
      /\ pc # "entry" =>
           /\ worhp_o'.XL = worhp_o.XL /\ worhp_o'.XU = worhp_o.XU
           /\ worhp_o'.GL = worhp_o.GL /\ worhp_o'.GU = worhp_o.GU
    ]_vars

\* a call rejected for lbx[1] = ubx[1], the first pair being different
C16_Witness ==
  /\ pc = "error" /\ inputs.lbx # Null /\ inputs.ubx # Null
  /\ inputs.lbx[0] # inputs.ubx[0] /\ inputs.lbx[1] = inputs.ubx[1]
  /\ worhp_o = WorhpInit_o


\* C17: for a lower-triangular pattern of the Hessian, HM.nnz is nx plus the
\* number of strictly lower entries; the declared structure lists the strictly
\* lower entries in column-major order, then the nx diagonal positions, with
\* 1-based indices; after an evalHM block HM.val[k] is the value nlp_hess_l
\* gave for structure entry k, 0 for a diagonal position the pattern lacks;
\* the compaction writes no index above the one it reads and none at or
\* beyond HM.nnz.
StrictlyLower(sp) == {e \in sp.nz : e[1] > e[2]}

HessValue(sp, hv, e) == IF e \in sp.nz THEN hv[NzIndex(sp, e)] ELSE 0

C17_HessianLinesUp ==
  (\A e \in hesslag_sp.nz : e[1] >= e[2]) =>
    LET ns == Cardinality(StrictlyLower(hesslag_sp))
    IN  /\ HM.nnz = nx_ + ns
        /\ HM.NeedStructure =>
             /\ {<<HM.row[k] - 1, HM.col[k] - 1>> : k \in Idx(ns)} = StrictlyLower(hesslag_sp)
             /\ \A j, k \in Idx(ns) :
                  j < k => \/ HM.col[j] < HM.col[k]
                           \/ HM.col[j] = HM.col[k] /\ HM.row[j] < HM.row[k]
             /\ \A d \in Idx(nx_) : HM.row[ns + d] = d + 1 /\ HM.col[ns + d] = d + 1
             /\ hm_hist.done =>
                  \A k \in Idx(HM.nnz) :
                    HM.val[k] = HessValue(hesslag_sp, hm_hist.hv, <<HM.row[k] - 1, HM.col[k] - 1>>)
        /\ hm_hist.done =>
             /\ \A i \in 1..Len(hm_hist.writes) :
                  /\ hm_hist.writes[i][1] <= hm_hist.writes[i][2]
                  /\ hm_hist.writes[i][1] < HM.nnz
             /\ hm_hist.ind + nx_ <= HM.nnz

\* an evalHM block has run on the pattern without its middle diagonal entry:
\* the strictly lower values moved up, the diagonal at the end with a 0
C17_Witness ==
  /\ hesslag_sp = NoDiag1 /\ HM.NeedStructure /\ hm_hist.done
  /\ hm_hist.hv = HessSample1(NoDiag1)
  /\ HM.val = [k \in Idx(6) |-> <<12, 13, 14, 11, 0, 15>>[k + 1]]
  /\ hm_hist.writes = <<<<0, 1>>, <<1, 2>>, <<2, 3>>>>


\* C18: set_work never releases the parameters: whenever it calls WorhpFree
\* the flag of the parameters is false and one of the other three is set; when
\* it returns (or throws) the flag of the parameters is true; the flags of the
\* problem, the workspace and the control structure are false when WorhpInit
\* is called; the destructor calls WorhpFree only if a flag is set, and
\* nothing is released after it.
AnySet(f) == f.p \/ f.o \/ f.w \/ f.c

FlagsKept ==
  /\ last_free.by = "set_work" =>
       ~last_free.at.p /\ (last_free.at.o \/ last_free.at.w \/ last_free.at.c)
  /\ pc \in {"entry", "set_work_failed"} =>
       flags.p /\ at_init.p /\ ~at_init.o /\ ~at_init.w /\ ~at_init.c
  /\ last_free.by = "destructor" => AnySet(last_free.at) /\ pc = "destroyed"
  /\ pc = "destroyed" => ~AnySet(flags)
  /\ pc = "initialised" => flags.p

Releases ==
  /\ last_free' # last_free =>
       \/ last_free'.by = "set_work" /\ ~last_free'.at.p /\ flags'.p /\ pc' # "destroyed"
       \/ last_free'.by = "destructor" /\ pc # "destroyed" /\ pc' = "destroyed"
  /\ pc = "destroyed" => UNCHANGED <<flags, last_free>>

C18_ParametersKeptBySetWork == []FlagsKept /\ [][Releases]_vars

\* a second set_work has released the three structures of the first, the
\* parameters kept, and WorhpInit has set the three up again
C18_Witness ==
  /\ pc = "entry" /\ flags = AllSet
  /\ last_free = [by |-> "set_work", at |-> [p |-> FALSE, o |-> TRUE, w |-> TRUE, c |-> TRUE]]


\* C19: in every pass of solve the copy of the right-hand side is w[0, nrow),
\* the scratch of the Function starts at w[nrow] and, sz_w long, ends within
\* w (w.size - nrow >= sz_w of the selected Function), so the two do not
\* overlap; the third input of the Function is that copy and shares nothing
\* with the segment of x the Function writes.
Overlap(a, b) == a.buf = b.buf /\ a.lo < b.hi /\ b.lo < a.hi

C19_ScratchApartFromRhs ==
  call.op = "solve" =>
    /\ w - nrow >= SelectSolve(call.tr).sz_w
    /\ \A i \in Idx(call.nrhs) :
         LET ps == call.passes[i]
         IN  /\ ps.tmp = Region("w", 0, nrow)
             /\ ps.arg2 = ps.tmp
             /\ ps.scratch.buf = "w" /\ ps.scratch.lo = nrow
             /\ ps.scratch.hi - ps.scratch.lo = SelectSolve(call.tr).sz_w
             /\ ps.scratch.hi <= w
             /\ ~Overlap(ps.tmp, ps.scratch)
             /\ ~Overlap(ps.arg2, ps.res0)

\* a solve of two right-hand sides by a Function that uses scratch, in a w
\* that is larger than the copy and the scratch together
C19_Witness ==
  /\ call.op = "solve" /\ call.nrhs = MaxRhs
  /\ SelectSolve(call.tr).sz_w > 0
  /\ w > nrow + SelectSolve(call.tr).sz_w


\* C20: a solve, of any number of right-hand sides and with either flag,
\* leaves Q, R, the three Functions and the sparsity as they were; a solve
\* that follows a solve gives, for an equal right-hand side and the same
\* flag, an equal result; a step that changes Q or R is a factorize or a
\* reset.
SolveFrame ==
  /\ call'.op = "solve" =>
       /\ q' = q /\ r' = r /\ fn' = fn /\ sparsity' = sparsity
       /\ (call.op = "solve" /\ call'.tr = call.tr) =>
            \A i \in Idx(call.nrhs), j \in Idx(call'.nrhs) :
              Segment(x0, i, nrow) = Segment(x0', j, nrow)
                => Segment(x, i, nrow) = Segment(x', j, nrow)
  /\ (q' # q \/ r' # r) => call'.op \in {"factorize", "reset"}

C20_SolveLeavesFactors == [][SolveFrame]_vars

\* a solve on the factors of the latest factorize: two right-hand sides, the
\* transposed system, results that differ from the right-hand side and from
\* each other
C20_Witness ==
  /\ SolveDone /\ call.fresh /\ call.tr /\ call.nrhs = MaxRhs
  /\ Segment(x, 0, nrow) # Segment(x0, 0, nrow)
  /\ Segment(x, 1, nrow) # Segment(x, 0, nrow)


\* C21: a reset with the pattern (and so the Functions) of the reset before
\* it leaves the sizes of arg, res, iw, w, q and r as they were, and after a
\* reset to another pattern the size of w is the largest sz_w of the three
\* new Functions plus the new row count.
ResetSizes ==
  call'.op = "reset" =>
    /\ (~fn.factorize.null /\ sparsity' = sparsity /\ fn' = fn) =>
         /\ arg' = arg /\ res' = res /\ iw' = iw /\ w' = w
         /\ q'.size = q.size /\ r'.size = r.size
    /\ sparsity' # sparsity =>
         w' = Max2(fn'.factorize.sz_w, Max2(fn'.solve.sz_w, fn'.solveT.sz_w)) + sparsity'.n

C21_ResetIdempotentOnSizes == [][ResetSizes]_vars

============================================================================
